---------------------------- MODULE Spec2Model ----------------------------
(***************************************************************************)
(* Model of hello.py: Entity (a table with lower-cased field names, port   *)
(* anchors, a lazily cached HTML label and a list of pre-declared edges)   *)
(* and ERGraph (a graphviz.Digraph that owns registered entities, linked   *)
(* edges and promised edges waiting for a missing entity).                 *)
(*                                                                         *)
(* Python objects are modelled by identity: Ents are Entity objects, and   *)
(* two of them may carry the same table name.  An exception raised by a    *)
(* call is the value of `result` after the call.  Declarations and edges   *)
(* join two different entities.  EntityFields (lines 7-11) is unfinished   *)
(* and used by neither class; it is not modelled.                          *)
(***************************************************************************)
EXTENDS Naturals, Sequences, FiniteSets, TLC

\* ------------------------------------------------------------------ bounds
MaxRel == 2        \* edge_to calls, over all entities
MaxBody == 4       \* lines the renderer receives (nodes and edges)
MaxNodes == 1      \* length of the nodes list given to ERGraph(nodes=...)
MaxFields == 3     \* length a stored field list is grown to after construction

\* ------------------------------------------------------------------ values
Ents == {"e1", "e2"}          \* Entity objects (identities)
Other(e) == IF e = "e1" THEN "e2" ELSE "e1"
NotAnEntity == "student:person_id"   \* a str (student.port_person_id), no Entity instance
NoPort == ""                  \* src_port None (or any falsy value)
Ports == {NoPort, "person_id"}   \* a field of student, of no person
OK == "ok"

Range(s) == {s[i] : i \in 1..Len(s)}

\* ------------------------------------------------------------------ state
VARIABLES
    made,               \* Entity objects whose __init__ has run
    _tablename,         \* Entity._tablename
    _fields,            \* Entity._fields
    _html,              \* Entity._html ("" is None)
    firstLabel,         \* history: what the first read of Entity.label returned ("" is none yet)
    _edges,             \* Entity._edges: <<self, ent, self_port>> tuples
    lateDeclared,       \* history: edge_to was called after an entity was registered
    constructed,        \* ERGraph.__init__ has returned
    entities,           \* ERGraph.entities
    _linked_edges,      \* ERGraph._linked_edges
    _promised_edges,    \* ERGraph._promised_edges (<<>> is "no key")
    body,               \* what graphviz.Digraph received, in order
    closures,           \* history: promised_edge closures _add_edge has created
    executed,           \* history: the closures that were called, in order
    effects,            \* history: the effects of the last call, in order
    result              \* OK or the exception the last call raised

graphVars == <<constructed, entities, _linked_edges, _promised_edges, body, closures, executed>>
vars == <<made, _tablename, _fields, _html, firstLabel, _edges, lateDeclared, constructed,
          entities, _linked_edges, _promised_edges, body, closures, executed,
          effects, result>>

\* ------------------------------------------------------------------ Entity
\* str.lower() on the field names the model uses
Lower(f) ==
    CASE f = "ID" -> "id"
      [] f = "Id" -> "id"
      [] f = "Name" -> "name"
      [] f = "Person_ID" -> "person_id"
      [] OTHER -> f

\* str.capitalize() on the table names the model uses
Capitalize(t) ==
    CASE t = "person" -> "Person"
      [] t = "student" -> "Student"
      [] OTHER -> t

\* list.insert(0, x)
Insert0(s, x) == <<x>> \o s

\* Entity.fields: a copy of the stored list
fields(stored) == stored

\* Entity.__init__, lines 37-39: the value of self._fields afterwards.
\* `self.fields.insert(0, 'id')` inserts into the copy the property returns.
InitFields(given) ==
    LET stored == [i \in 1..Len(given) |-> Lower(given[i])]
        copy == fields(stored)
        inserted == IF "id" \notin Range(fields(stored)) THEN Insert0(copy, "id") ELSE copy
    IN  stored

\* Entity._get_header
_get_header(t) ==
    "\t<tr><td " \o "bgcolor=\"#cfcfcf\" width=\"72\" cellpadding=\"5\" " \o ">"
        \o Capitalize(t) \o "</td></tr>"

\* Entity._get_row
_get_row(f) ==
    "\t<tr><td " \o "align=\"left\" " \o " port=\"" \o f \o "\">  " \o f \o "</td></tr>"

RECURSIVE Join(_, _)
\* str.join
Join(sep, s) ==
    IF s = <<>> THEN ""
    ELSE IF Len(s) = 1 THEN s[1]
    ELSE s[1] \o sep \o Join(sep, Tail(s))

\* Entity._get_table
_get_table(hdr, rows) ==
    "<table border=\"1\" cellborder=\"0\" cellspacing=\"0\" cellpadding=\"2\">"
        \o Join("\n", <<"", hdr>> \o rows \o <<"">>) \o "</table>"

\* Entity._update_html: the text stored in _html
_update_html(t, flds) ==
    _get_table(_get_header(t), [i \in 1..Len(flds) |-> _get_row(fields(flds)[i])])

\* label rebuilding the table on every read
label_NoCache(cached, t, flds) ==
    LET html == _update_html(t, flds)
    IN  <<"<" \o html \o ">", html>>

\* Entity.label reads through the cache: <<label, new _html>>
label(cached, t, flds) ==
    LET html == IF cached # "" THEN cached ELSE _update_html(t, flds)
    IN  <<"<" \o html \o ">", html>>

\* Entity.__getattribute__ for 'port_' + name: is the attribute found
HasPort(e, name) == name \in Range(fields(_fields[e]))

\* Entity.__getattribute__: the anchor text
port_(e, name) == _tablename[e] \o ":" \o name
port(e) == _tablename[e]

\* ------------------------------------------------------------------ ERGraph
\* One effect of a call, as the history records it: what happened (kind), to
\* which entity or anchors, which entities were registered at that moment
\* (ents) and, for a closure, the entities it was declared between (of), the
\* source entity among them (by) and which closure it is (id).
Effect(kind, ent, c, ents) ==
    [kind |-> kind, ent |-> ent, src |-> c.src, dst |-> c.dst, of |-> c.of,
     by |-> c.by, id |-> c.id, ents |-> ents]

NoEdge == [src |-> "", dst |-> "", of |-> {}, by |-> "", id |-> 0]

\* def promised_edge() at line 170: a new closure over src and dst.  of, by
\* and id are history only.
Closure(g, src, dst, src_ent, dst_ent) ==
    [src |-> src, dst |-> dst, of |-> {src_ent, dst_ent}, by |-> src_ent,
     id |-> g.closures + 1]

Counted(g) == [g EXCEPT !.closures = @ + 1]

\* A line the renderer received: graphviz.Digraph.node / graphviz.Digraph.edge
NodeLine(name, lbl) == [kind |-> "node", a |-> name, b |-> lbl]
EdgeLine(src, dst) == [kind |-> "edge", a |-> src, b |-> dst]

\* The graph while a call runs.  html is Entity._html of every entity (node
\* reads ent.label) and first the history of those reads, err the exception
\* that ended the call.
Running ==
    [entities |-> entities, linked |-> _linked_edges, promised |-> _promised_edges,
     body |-> body, closures |-> closures, executed |-> executed, html |-> _html, first |-> firstLabel,
     effects |-> <<>>, err |-> OK]

\* ERGraph.__init__, lines 120-122
Fresh ==
    [entities |-> {}, linked |-> {}, promised |-> [e \in Ents |-> <<>>],
     body |-> <<>>, closures |-> 0, executed |-> <<>>, html |-> _html, first |-> firstLabel,
     effects |-> <<>>, err |-> OK]

\* promised_edge emitting the edge without recording the pair
promised_edge_NoLink(g, c) ==
    [g EXCEPT !.body = Append(@, EdgeLine(c.src, c.dst)),
              !.executed = Append(@, c.id),
              !.effects = @ \o <<Effect("emitEdge", "", c, g.entities)>>]

\* promised_edge assigning the pair instead of adding it
promised_edge_Overwrites(g, c) ==
    [g EXCEPT !.body = Append(@, EdgeLine(c.src, c.dst)),
              !.executed = Append(@, c.id),
              !.linked = {<<c.src, c.dst>>},
              !.effects = @ \o <<Effect("emitEdge", "", c, g.entities),
                                 Effect("link", "", c, g.entities)>>]

\* the closure promised_edge of _add_edge, called: c.src and c.dst are what
\* it captured
promised_edge(g, c) ==
    [g EXCEPT !.body = Append(@, EdgeLine(c.src, c.dst)),
              !.executed = Append(@, c.id),
              !.linked = @ \cup {<<c.src, c.dst>>},
              !.effects = @ \o <<Effect("emitEdge", "", c, g.entities),
                                 Effect("link", "", c, g.entities)>>]

\* the closure appended under both of its entities
Promise_UnderBoth(g, key, c) ==
    [g EXCEPT !.promised = [e \in Ents |-> IF e \in c.of THEN Append(@[e], c) ELSE @[e]],
              !.effects = Append(@, Effect("promise", key, c, g.entities))]

\* self._promised_edges[key].append(promised_edge)
Promise(g, key, c) ==
    [g EXCEPT !.promised[key] = Append(@, c),
              !.effects = Append(@, Effect("promise", key, c, g.entities))]

\* _add_edge without the `elif dst_ent not in self.entities` branch
_add_edge_NoDstCheck(g, src_ent, dst_ent, src_port) ==
    IF src_port # NoPort /\ ~HasPort(src_ent, src_port)
    THEN [g EXCEPT !.err = "AttributeError"]
    ELSE
        LET src == IF src_port # NoPort THEN port_(src_ent, src_port) ELSE port(src_ent)
            dst == port(dst_ent)
            c == Closure(g, src, dst, src_ent, dst_ent)
        IN  IF <<src, dst>> \in g.linked THEN g
            ELSE IF src_ent \notin g.entities THEN Promise(Counted(g), src_ent, c)
            ELSE promised_edge(Counted(g), c)

\* _add_edge building the anchor text without looking the field up
_add_edge_NoFieldCheck(g, src_ent, dst_ent, src_port) ==
    LET src == IF src_port # NoPort THEN port_(src_ent, src_port) ELSE port(src_ent)
        dst == port(dst_ent)
        c == Closure(g, src, dst, src_ent, dst_ent)
    IN  IF <<src, dst>> \in g.linked THEN g
        ELSE IF src_ent \notin g.entities THEN Promise(Counted(g), src_ent, c)
        ELSE IF dst_ent \notin g.entities THEN Promise(Counted(g), dst_ent, c)
        ELSE promised_edge(Counted(g), c)

\* _add_edge looking at the destination entity before the source entity
_add_edge_DstFirst(g, src_ent, dst_ent, src_port) ==
    IF src_port # NoPort /\ ~HasPort(src_ent, src_port)
    THEN [g EXCEPT !.err = "AttributeError"]
    ELSE
        LET src == IF src_port # NoPort THEN port_(src_ent, src_port) ELSE port(src_ent)
            dst == port(dst_ent)
            c == Closure(g, src, dst, src_ent, dst_ent)
        IN  IF <<src, dst>> \in g.linked THEN g
            ELSE IF dst_ent \notin g.entities THEN Promise(Counted(g), dst_ent, c)
            ELSE IF src_ent \notin g.entities THEN Promise(Counted(g), src_ent, c)
            ELSE promised_edge(Counted(g), c)

\* ERGraph._add_edge
_add_edge(g, src_ent, dst_ent, src_port) ==
    IF src_port # NoPort /\ ~HasPort(src_ent, src_port)
    THEN [g EXCEPT !.err = "AttributeError"]
    ELSE
        LET src == IF src_port # NoPort THEN port_(src_ent, src_port) ELSE port(src_ent)
            dst == port(dst_ent)
            c == Closure(g, src, dst, src_ent, dst_ent)
        IN  IF <<src, dst>> \in g.linked THEN g
            ELSE IF src_ent \notin g.entities THEN Promise(Counted(g), src_ent, c)
            ELSE IF dst_ent \notin g.entities THEN Promise(Counted(g), dst_ent, c)
            ELSE promised_edge(Counted(g), c)

RECURSIVE RunPromised(_, _)
\* [f() for f in <popped list>]
RunPromised(g, fs) ==
    IF fs = <<>> THEN g ELSE RunPromised(promised_edge(g, Head(fs)), Tail(fs))

RECURSIVE AddOwnEdges(_, _)
\* for edge in ent.edges: self._add_edge(*edge)
AddOwnEdges(g, es) ==
    IF es = <<>> \/ g.err # OK THEN g
    ELSE AddOwnEdges(_add_edge(g, Head(es)[1], Head(es)[2], Head(es)[3]), Tail(es))

\* self._promised_edges.pop(ent, []): the list is taken out before any f() runs
PopPromised(g, ent) ==
    [g EXCEPT !.promised[ent] = <<>>,
              !.effects = Append(@, Effect("pop", ent, NoEdge, g.entities))]

\* node without line 132: the promised edges are neither taken out nor run
node_NoFlush(g, ent) ==
    IF ent \notin Ents
    THEN [g EXCEPT !.err = "TypeError"]
    ELSE
        LET lbl == label(g.html[ent], _tablename[ent], _fields[ent])
            g1 == [g EXCEPT !.html[ent] = lbl[2],
                            !.first[ent] = IF @ = "" THEN lbl[1] ELSE @,
                            !.body = Append(@, NodeLine(_tablename[ent], lbl[1])),
                            !.effects = Append(@, Effect("emitNode", ent, NoEdge, g.entities))]
            g2 == [g1 EXCEPT !.entities = @ \cup {ent},
                             !.effects = Append(@, Effect("add", ent, NoEdge, g.entities \cup {ent}))]
        IN  AddOwnEdges(g2, _edges[ent])

\* node with lines 133-134 before line 132: own declarations first
node_OwnFirst(g, ent) ==
    IF ent \notin Ents
    THEN [g EXCEPT !.err = "TypeError"]
    ELSE
        LET lbl == label(g.html[ent], _tablename[ent], _fields[ent])
            g1 == [g EXCEPT !.html[ent] = lbl[2],
                            !.first[ent] = IF @ = "" THEN lbl[1] ELSE @,
                            !.body = Append(@, NodeLine(_tablename[ent], lbl[1])),
                            !.effects = Append(@, Effect("emitNode", ent, NoEdge, g.entities))]
            g2 == [g1 EXCEPT !.entities = @ \cup {ent},
                             !.effects = Append(@, Effect("add", ent, NoEdge, g.entities \cup {ent}))]
            g3 == AddOwnEdges(g2, _edges[ent])
        IN  IF g3.err # OK THEN g3 ELSE RunPromised(PopPromised(g3, ent), g3.promised[ent])

\* ERGraph.node
node(g, ent) ==
    IF ent \notin Ents
    THEN [g EXCEPT !.err = "TypeError"]
    ELSE
        LET lbl == label(g.html[ent], _tablename[ent], _fields[ent])
            g1 == [g EXCEPT !.html[ent] = lbl[2],
                            !.first[ent] = IF @ = "" THEN lbl[1] ELSE @,
                            !.body = Append(@, NodeLine(_tablename[ent], lbl[1])),
                            !.effects = Append(@, Effect("emitNode", ent, NoEdge, g.entities))]
            g2 == [g1 EXCEPT !.entities = @ \cup {ent},
                             !.effects = Append(@, Effect("add", ent, NoEdge, g.entities \cup {ent}))]
            g3 == RunPromised(PopPromised(g2, ent), g2.promised[ent])
        IN  AddOwnEdges(g3, _edges[ent])

\* edge without its two assertions
edge_NoAssert(g, src_ent, dst_ent, src_port) ==
    IF src_ent \notin Ents THEN [g EXCEPT !.err = "AttributeError"]
    ELSE _add_edge(g, src_ent, dst_ent, src_port)

\* ERGraph.edge
edge(g, src_ent, dst_ent, src_port) ==
    IF src_ent \notin g.entities \/ dst_ent \notin g.entities
    THEN [g EXCEPT !.err = "AssertionError"]
    ELSE _add_edge(g, src_ent, dst_ent, src_port)

RECURSIVE NodeAll(_, _)
\* ERGraph.__init__: for ent in nodes: self.node(ent)
NodeAll(g, nodes) ==
    IF nodes = <<>> \/ g.err # OK THEN g ELSE NodeAll(node(g, Head(nodes)), Tail(nodes))

\* The graph and the entities' label caches after a call that ended in g
Becomes(g) ==
    /\ entities' = g.entities
    /\ _linked_edges' = g.linked
    /\ _promised_edges' = g.promised
    /\ body' = g.body
    /\ closures' = g.closures
    /\ executed' = g.executed
    /\ _html' = g.html
    /\ firstLabel' = g.first
    /\ effects' = g.effects
    /\ result' = g.err

TotalRel == Len(_edges["e1"]) + Len(_edges["e2"])

\* ------------------------------------------------------------------ init
\* no ERGraph exists
NoGraph ==
    /\ constructed = FALSE
    /\ entities = {}
    /\ _linked_edges = {}
    /\ _promised_edges = [e \in Ents |-> <<>>]
    /\ body = <<>>
    /\ closures = 0
    /\ executed = <<>>
    /\ effects = <<>>
    /\ result = OK

\* The Entity(...) calls that precede the graph: the two tables of the ERGraph
\* docstring, and two tables of one name, the second built without fields.
EntityArgs ==
    { [e1 |-> [tablename |-> "person", fields |-> <<"ID", "Name">>],
       e2 |-> [tablename |-> "student", fields |-> <<"id", "person_id">>]],
      [e1 |-> [tablename |-> "person", fields |-> <<"ID", "Name">>],
       e2 |-> [tablename |-> "person", fields |-> <<>>]] }

Init ==
    /\ made = Ents
    /\ \E a \in EntityArgs :
        /\ _tablename = [e \in Ents |-> a[e].tablename]
        /\ _fields = [e \in Ents |-> InitFields(a[e].fields)]
    /\ _html = [e \in Ents |-> ""]
    /\ firstLabel = [e \in Ents |-> ""]
    /\ _edges = [e \in Ents |-> <<>>]
    /\ lateDeclared = FALSE
    /\ NoGraph

\* ------------------------------------------------------------------ calls
\* edge_to inserting at the front of the list
edge_to_Prepends(e, ent, self_port) ==
    /\ e \in made /\ ent \in made
    /\ TotalRel < MaxRel
    /\ _edges' = [_edges EXCEPT ![e] = <<(<<e, ent, self_port>>)>> \o @]
    /\ lateDeclared' = (lateDeclared \/ entities # {})
    /\ effects' = <<>>
    /\ result' = OK
    /\ UNCHANGED <<made, _tablename, _fields, _html, firstLabel>>
    /\ UNCHANGED graphVars

\* e.edge_to(ent, self_port), ent another entity
edge_to(e, ent, self_port) ==
    /\ e \in made /\ ent \in made
    /\ TotalRel < MaxRel
    /\ _edges' = [_edges EXCEPT ![e] = Append(@, <<e, ent, self_port>>)]
    /\ lateDeclared' = (lateDeclared \/ entities # {})
    /\ effects' = <<>>
    /\ result' = OK
    /\ UNCHANGED <<made, _tablename, _fields, _html, firstLabel>>
    /\ UNCHANGED graphVars

\* er = ERGraph(nodes=nodes); when __init__ raises, no graph exists
ERGraph__init__(nodes) ==
    /\ made = Ents
    /\ ~constructed
    /\ LET g == NodeAll(Fresh, nodes)
       IN  IF g.err = OK
           THEN constructed' = TRUE /\ Becomes(g)
           ELSE /\ _html' = g.html
                /\ firstLabel' = g.first
                /\ effects' = g.effects
                /\ result' = g.err
                /\ UNCHANGED graphVars
    /\ UNCHANGED <<made, _tablename, _fields, _edges, lateDeclared>>

\* er.node(ent)
NodeCall(ent) ==
    /\ constructed
    /\ LET g == node(Running, ent)
       IN  Len(g.body) <= MaxBody /\ Becomes(g)
    /\ UNCHANGED <<made, _tablename, _fields, _edges, lateDeclared, constructed>>

\* er.edge(src_ent, dst_ent, src_port)
EdgeCall(src_ent, dst_ent, src_port) ==
    /\ constructed
    /\ LET g == edge(Running, src_ent, dst_ent, src_port)
       IN  Len(g.body) <= MaxBody /\ Becomes(g)
    /\ UNCHANGED <<made, _tablename, _fields, _edges, lateDeclared, constructed>>

\* the lists ERGraph(nodes=...) is given
NodesArgs == UNION {[1..n -> Ents \cup {NotAnEntity}] : n \in 0..MaxNodes}

DeclareEdge == \E e \in Ents, p \in Ports : edge_to(e, Other(e), p)
NewGraph == \E nodes \in NodesArgs : ERGraph__init__(nodes)
Register == \E ent \in Ents \cup {NotAnEntity} : NodeCall(ent)
LinkRegistered ==
    \E s \in Ents \cup {NotAnEntity} : \E d \in Ents \ {s}, p \in Ports : EdgeCall(s, d, p)

Next ==
    \/ DeclareEdge
    \/ NewGraph
    \/ Register
    \/ LinkRegistered

Spec == Init /\ [][Next]_vars

\* ------------------------------------------------------------------ Entity alone
\* the arguments Entity(tablename, fields) is called with; <<>> is also None
TableNames == {"person", "student"}
FieldLists ==
    { <<>>, <<"ID", "Name">>, <<"Name">>, <<"name", "Id">>, <<"id", "person_id">>,
      <<"Person_ID">>, <<"name", "person_id">> }

InitEntity ==
    /\ made = {}
    /\ _tablename = [e \in Ents |-> ""]
    /\ _fields = [e \in Ents |-> <<>>]
    /\ _html = [e \in Ents |-> ""]
    /\ firstLabel = [e \in Ents |-> ""]
    /\ _edges = [e \in Ents |-> <<>>]
    /\ lateDeclared = FALSE
    /\ NoGraph

\* e = Entity(tablename, given)
Entity__init__(e, tablename, given) ==
    /\ e \notin made
    /\ made' = made \cup {e}
    /\ _tablename' = [_tablename EXCEPT ![e] = tablename]
    /\ _fields' = [_fields EXCEPT ![e] = InitFields(given)]
    /\ _html' = [_html EXCEPT ![e] = ""]
    /\ firstLabel' = [firstLabel EXCEPT ![e] = ""]
    /\ _edges' = [_edges EXCEPT ![e] = <<>>]
    /\ UNCHANGED <<lateDeclared, effects, result>>
    /\ UNCHANGED graphVars

NewEntity == \E e \in Ents, t \in TableNames, given \in FieldLists : Entity__init__(e, t, given)

NextEntity == NewEntity

SpecEntity == InitEntity /\ [][NextEntity]_vars

\* ------------------------------------------------------------------ Entity and its label
\* e.label read by the caller; result is the text returned
ReadLabel(e) ==
    /\ e \in made
    /\ LET lbl == label(_html[e], _tablename[e], _fields[e])
       IN  /\ _html' = [_html EXCEPT ![e] = lbl[2]]
           /\ firstLabel' = [firstLabel EXCEPT ![e] = IF @ = "" THEN lbl[1] ELSE @]
           /\ result' = lbl[1]
    /\ effects' = <<>>
    /\ UNCHANGED <<made, _tablename, _fields, _edges, lateDeclared>>
    /\ UNCHANGED graphVars

\* e._fields.append(f): the stored list changed from outside the class
AppendField(e, f) ==
    /\ e \in made
    /\ Len(_fields[e]) < MaxFields
    /\ _fields' = [_fields EXCEPT ![e] = Append(@, f)]
    /\ effects' = <<>>
    /\ result' = OK
    /\ UNCHANGED <<made, _tablename, _html, firstLabel, _edges, lateDeclared>>
    /\ UNCHANGED graphVars

ExtraFields == {"age"}

ReadAnyLabel == \E e \in Ents : ReadLabel(e)
ChangeFields == \E e \in Ents, f \in ExtraFields : AppendField(e, f)

NextLabel ==
    \/ NewEntity
    \/ ReadAnyLabel
    \/ ChangeFields

SpecLabel == InitEntity /\ [][NextLabel]_vars

\* ------------------------------------------------------------------ reading the state
IsEdge(l) == l.kind = "edge"
IsNode(l) == l.kind = "node"
EdgeLines(b) == SelectSeq(b, IsEdge)
NodeLines(b) == SelectSeq(b, IsNode)
Times(b, l) == Cardinality({i \in 1..Len(b) : b[i] = l})
KindsOf(fx) == [i \in 1..Len(fx) |-> fx[i].kind]

\* the last call was node (or ERGraph(nodes=[...]) with a node in it) and got
\* past the isinstance assertion
LastCallRegistered == effects # <<>> /\ effects[1].kind = "emitNode"

\* src_port names no field of src_ent
UnknownField(src_ent, src_port) == src_port # NoPort /\ ~HasPort(src_ent, src_port)

\* the anchor pair a declaration resolves to
Resolved(src_ent, dst_ent, src_port) ==
    <<IF src_port # NoPort THEN port_(src_ent, src_port) ELSE port(src_ent), port(dst_ent)>>

\* ------------------------------------------- _add_edge called directly
\* er._add_edge(src_ent, dst_ent, src_port), without the assertions of edge,
\* on a graph of entities that declared no relationship of their own with
\* edge_to.  The promised edges are kept to MaxRel.
AddEdgeCall(src_ent, dst_ent, src_port) ==
    /\ constructed
    /\ LET g == _add_edge(Running, src_ent, dst_ent, src_port)
       IN  /\ Len(g.body) <= MaxBody
           /\ Len(g.promised["e1"]) + Len(g.promised["e2"]) <= MaxRel
           /\ Becomes(g)
    /\ UNCHANGED <<made, _tablename, _fields, _edges, lateDeclared, constructed>>

AddEdgeDirect == \E s \in Ents, p \in Ports : AddEdgeCall(s, Other(s), p)

NextInternal ==
    \/ NewGraph
    \/ Register
    \/ LinkRegistered
    \/ AddEdgeDirect

SpecInternal == Init /\ [][NextInternal]_vars

\* ------------------------------------------------------------------ C1
\* C1: every resolved (source anchor, destination anchor) pair is emitted to
\* the renderer at most once, whatever node, edge and edge_to calls were made.
C1_PairEmittedAtMostOnce ==
    \A i \in 1..Len(body) : IsEdge(body[i]) => Times(body, body[i]) = 1

\* ------------------------------------------------------------------ C2
\* C2: an edge is emitted only at a moment when the source entity and the
\* destination entity of its declaration are both in the registered set.
C2_EmittedOnlyBetweenRegistered ==
    \A i \in 1..Len(effects) :
        effects[i].kind = "emitEdge" => effects[i].of \subseteq effects[i].ents

\* C2 witness: an edge promised while its destination was missing has been
\* emitted by the destination's registration.
C2_Witness ==
    /\ result = OK
    /\ Len(effects) >= 4
    /\ KindsOf(SubSeq(effects, 1, 4)) = <<"emitNode", "add", "pop", "emitEdge">>
    /\ effects[4].of = Ents

\* ------------------------------------------------------------------ C4
IsLower(f) == Lower(f) = f
NoIdGiven(given) == \A i \in 1..Len(given) : Lower(given[i]) # "id"

\* C4: an entity constructed without an 'id' field (in any letter case) reads
\* back fields with 'id' at index 0; every entity's fields contain 'id' and
\* are lower case.
C4_IdPresentAndFirst ==
    [][\A e \in Ents, t \in TableNames, given \in FieldLists :
        Entity__init__(e, t, given) =>
            LET f == fields(_fields'[e])
            IN  /\ NoIdGiven(given) => (Len(f) > 0 /\ f[1] = "id")
                /\ "id" \in Range(f)
                /\ \A i \in 1..Len(f) : IsLower(f[i])]_vars

\* ------------------------------------------------------------------ C3
\* S.edge_to(D, f) is the only declaration, was made before anything was
\* registered, and f is absent or a field of S
OnlyDeclared(S, f) ==
    /\ ~lateDeclared
    /\ _edges[S] = <<<<S, Other(S), f>>>>
    /\ _edges[Other(S)] = <<>>
    /\ ~UnknownField(S, f)

\* C3: after S.edge_to(D, f) alone, made while neither is registered, the
\* first registration (of S or of D) emits no edge, and when the second
\* registration returns exactly one edge, anchor(S, f) -> anchor(D), has been
\* emitted, next to one node for each of the two.
C3_OneEdgeAfterSecondRegistration ==
    \A S \in Ents, f \in Ports :
        (OnlyDeclared(S, f) /\ LastCallRegistered /\ result = OK) =>
            /\ Len(NodeLines(body)) = 1 => EdgeLines(body) = <<>>
            /\ (Len(NodeLines(body)) = 2 /\ entities = Ents) =>
                   /\ EdgeLines(body) =
                          <<EdgeLine(Resolved(S, Other(S), f)[1], Resolved(S, Other(S), f)[2])>>
                   /\ body[Len(body)] = EdgeLines(body)[1]

\* C3 witness: the destination registered first, then the source, and the one
\* edge student:person_id -> person is out.
C3_WitnessDestinationFirst ==
    /\ OnlyDeclared("e2", "person_id")
    /\ KindsOf(effects) = <<"emitNode", "add", "pop", "emitEdge", "link">>
    /\ effects[1].ent = "e2"
    /\ body[Len(body)] = EdgeLine("student:person_id", "person")
    /\ Len(body) = 3

\* ------------------------------------------------------------------ C5
\* C5: edge with an unregistered source or destination, and node with a value
\* that is no Entity, raise and leave entities, linked edges, promised edges
\* and the renderer's lines as they were.
C5_FailedPreconditionChangesNothing ==
    [][/\ \A s \in Ents \cup {NotAnEntity}, d \in Ents, p \in Ports :
            ((s \notin entities \/ d \notin entities) /\ EdgeCall(s, d, p)) =>
                /\ result' = "AssertionError"
                /\ UNCHANGED <<entities, _linked_edges, _promised_edges, body>>
       /\ NodeCall(NotAnEntity) =>
                /\ result' \in {"AssertionError", "TypeError"}
                /\ UNCHANGED <<entities, _linked_edges, _promised_edges, body>>]_vars

\* C5 witness: edge has failed its assertion on a graph that holds a
\* registered entity and a promised edge.
C5_Witness ==
    /\ result = "AssertionError"
    /\ entities # {}
    /\ \E e \in Ents : _promised_edges[e] # <<>>

\* ------------------------------------------------------------------ C6
\* e has pre-declared an edge anchored to a field it does not have
DeclaredUnknownField(e) ==
    \E i \in 1..Len(_edges[e]) : UnknownField(e, _edges[e][i][3])

\* C6: an edge anchored to a field the source entity does not have fails with
\* the unknown-field error and emits nothing to the renderer, both in
\* edge(src, dst, badField) and in node(src) after src.edge_to(dst, badField).
C6_UnknownFieldEmitsNothing ==
    [][/\ \A s \in Ents, p \in Ports :
            (UnknownField(s, p) /\ {s, Other(s)} \subseteq entities /\ EdgeCall(s, Other(s), p)) =>
                (result' = "AttributeError" /\ body' = body)
       /\ \A s \in Ents :
            (DeclaredUnknownField(s) /\ NodeCall(s)) =>
                (result' = "AttributeError" /\ body' = body)]_vars

\* ------------------------------------------------------------------ C7
\* C7: edge(src, dst, port) with both registered, port absent or a field of
\* src, and the resolved pair not yet linked, emits exactly that one edge,
\* adds the pair to the linked edges and promises nothing.
C7_EdgeBetweenRegisteredIsImmediate ==
    [][\A s \in Ents, p \in Ports :
        (/\ {s, Other(s)} \subseteq entities
         /\ ~UnknownField(s, p)
         /\ Resolved(s, Other(s), p) \notin _linked_edges
         /\ EdgeCall(s, Other(s), p)) =>
            LET c == Resolved(s, Other(s), p)
            IN  /\ result' = OK
                /\ body' = Append(body, EdgeLine(c[1], c[2]))
                /\ _linked_edges' = _linked_edges \cup {c}
                /\ _promised_edges' = _promised_edges]_vars

\* C7 witness: the last call was edge between registered entities and it
\* emitted its edge at once.
C7_Witness ==
    /\ result = OK
    /\ KindsOf(effects) = <<"emitEdge", "link">>
    /\ effects[1].of \subseteq entities
    /\ body[Len(body)] = EdgeLine(effects[1].src, effects[1].dst)

\* ------------------------------------------------------------------ C8
Shape(fx) == [i \in 1..Len(fx) |-> <<fx[i].kind, fx[i].ent, fx[i].src, fx[i].dst>>]

RECURSIVE FlushShape(_)
\* what running the promised edges q, first to last, looks like
FlushShape(q) ==
    IF q = <<>> THEN <<>>
    ELSE <<(<<"emitEdge", "", Head(q).src, Head(q).dst>>),
           (<<"link", "", Head(q).src, Head(q).dst>>)>> \o FlushShape(Tail(q))

RECURSIVE IsSubseq(_, _)
\* x is y with some elements left out
IsSubseq(x, y) ==
    IF x = <<>> THEN TRUE
    ELSE IF y = <<>> THEN FALSE
    ELSE IF Head(x) = Head(y) THEN IsSubseq(Tail(x), Tail(y))
    ELSE IsSubseq(x, Tail(y))

\* the anchor pairs of ent's own declarations, in edge_to order, up to the
\* first one whose field is unknown
RECURSIVE ResolvedOwn(_)
ResolvedOwn(es) ==
    IF es = <<>> \/ UnknownField(Head(es)[1], Head(es)[3]) THEN <<>>
    ELSE <<Resolved(Head(es)[1], Head(es)[2], Head(es)[3])>> \o ResolvedOwn(Tail(es))

NotLink(x) == x[1] # "link"
\* the effects sh all come from ent's own declarations, in edge_to order
OwnInOrder(sh, ent) ==
    /\ \A i \in 1..Len(sh) : sh[i][1] \in {"promise", "emitEdge", "link"}
    /\ LET tried == SelectSeq(sh, NotLink)
       IN  IsSubseq([i \in 1..Len(tried) |-> <<tried[i][3], tried[i][4]>>],
                    ResolvedOwn(_edges[ent]))

\* C8: node(ent) emits the node, registers ent, runs the actions promised
\* under ent in queue order, then removes ent's entry from the promised
\* edges, then runs ent's own declarations in edge_to order.
C8_FlushThenRemove ==
    [][\A ent \in Ents : NodeCall(ent) =>
        LET q == _promised_edges[ent]
            k == 2 * Len(q)
            sh == Shape(effects')
        IN  /\ Len(sh) >= 3 + k
            /\ SubSeq(sh, 1, 2) = <<(<<"emitNode", ent, "", "">>), (<<"add", ent, "", "">>)>>
            /\ SubSeq(sh, 3, 2 + k) = FlushShape(q)
            /\ sh[3 + k] = <<"pop", ent, "", "">>
            /\ OwnInOrder(SubSeq(sh, 4 + k, Len(sh)), ent)
            /\ _promised_edges'[ent] = <<>>]_vars

\* C8 amended: node(ent) emits the node, registers ent, removes ent's entry
\* from the promised edges, then runs the actions that were in it in queue
\* order, then runs ent's own declarations in edge_to order.
C8_RemoveThenFlush ==
    [][\A ent \in Ents : NodeCall(ent) =>
        LET q == _promised_edges[ent]
            k == 2 * Len(q)
            sh == Shape(effects')
        IN  /\ Len(sh) >= 3 + k
            /\ SubSeq(sh, 1, 3) = <<(<<"emitNode", ent, "", "">>), (<<"add", ent, "", "">>),
                                    (<<"pop", ent, "", "">>)>>
            /\ SubSeq(sh, 4, 3 + k) = FlushShape(q)
            /\ OwnInOrder(SubSeq(sh, 4 + k, Len(sh)), ent)
            /\ _promised_edges'[ent] = <<>>]_vars

\* C8 witness: node(person) has run the edge student -> person promised under
\* person and then person's own declaration person -> student.
C8_Witness ==
    /\ result = OK
    /\ KindsOf(effects) = <<"emitNode", "add", "pop", "emitEdge", "link", "emitEdge", "link">>
    /\ effects[1].ent = "e1"
    /\ effects[4].dst = "person"
    /\ effects[6].dst = "student"

\* ------------------------------------------------------------------ C9
\* C9: the registered entities and the linked edges only grow, in every call,
\* failed calls included.
C9_SetsOnlyGrow ==
    [][entities \subseteq entities' /\ _linked_edges \subseteq _linked_edges']_vars

\* C9 witness: a call has raised on a graph with registered entities and
\* linked edges.
C9_Witness ==
    /\ result # OK
    /\ entities = Ents
    /\ Cardinality(_linked_edges) >= 2

\* ------------------------------------------------------------------ C10
\* C10: edge_to appends the one tuple (self, target, field) to the end of the
\* caller's own list and changes nothing else: not the other entity's list,
\* not the graph's entities, linked edges, promised edges or emitted lines.
C10_EdgeToOnlyAppends ==
    [][/\ \A e \in Ents, p \in Ports :
            edge_to(e, Other(e), p) =>
                /\ _edges'[e] = Append(_edges[e], <<e, Other(e), p>>)
                /\ _edges'[Other(e)] = _edges[Other(e)]
                /\ UNCHANGED <<constructed, entities, _linked_edges, _promised_edges, body>>
                /\ UNCHANGED <<_tablename, _fields, _html>>
       /\ _edges' # _edges => \E e \in Ents, p \in Ports : edge_to(e, Other(e), p)]_vars

\* C10 witness: a registered entity has called edge_to (its declaration is not
\* promised, so it was made after the entity's registration).
C10_Witness ==
    \E e \in Ents :
        /\ lateDeclared
        /\ e \in entities /\ Other(e) \notin entities
        /\ _edges[e] = <<<<e, Other(e), NoPort>>>>
        /\ _promised_edges[Other(e)] = <<>>
        /\ effects = <<>>

\* ------------------------------------------------------------------ C11
\* C11: a read of an entity's label returns the text its first read returned,
\* also when the stored field list was changed in between: the table is
\* built on the first read and the cached text is reused afterwards.
C11_LabelIsFirstLabel ==
    \A e \in made :
        firstLabel[e] # "" =>
            /\ label(_html[e], _tablename[e], _fields[e])[1] = firstLabel[e]
            /\ firstLabel[e] = "<" \o _html[e] \o ">"

\* C11 witness: the last call read a label and got the first label back, though
\* the fields now stored would give another table.
C11_Witness ==
    \E e \in made :
        /\ firstLabel[e] # ""
        /\ result = firstLabel[e]
        /\ firstLabel[e] # "<" \o _update_html(_tablename[e], _fields[e]) \o ">"

\* ------------------------------------------------------------------ C12
\* C12: the usage of the ERGraph docstring works: with person and student
\* registered, edge(student.port_person_id, person), whose first argument is
\* the anchor text of student's field person_id, returns normally and emits
\* the edge from that anchor to person.
C12_DocstringUsage ==
    [][(/\ HasPort("e2", "person_id")
        /\ {"e1", "e2"} \subseteq entities
        /\ <<port_("e2", "person_id"), port("e1")>> \notin _linked_edges
        /\ EdgeCall(port_("e2", "person_id"), "e1", NoPort)) =>
            /\ result' = OK
            /\ body' = Append(body, EdgeLine(port_("e2", "person_id"), port("e1")))]_vars


\* ------------------------------------------------------------------ C13
\* the anchor pairs of the edges the renderer received
EmittedPairs == {<<body[i].a, body[i].b>> : i \in {j \in 1..Len(body) : IsEdge(body[j])}}

\* the anchor pairs of the promised edges that still wait
WaitingPairs ==
    UNION {{<<c.src, c.dst>> : c \in Range(_promised_edges[e])} : e \in Ents}

\* C13: after every call the linked edges are exactly the anchor pairs that
\* were emitted to the renderer as edges; a pair that only waits as a
\* promised edge is not among them.
C13_LinkedIsEmitted ==
    /\ _linked_edges = EmittedPairs
    /\ \A pr \in WaitingPairs \ EmittedPairs : pr \notin _linked_edges

\* C13 witness: two different pairs have been emitted and both are linked.
C13_Witness ==
    /\ Cardinality(EmittedPairs) = 2
    /\ Cardinality(_linked_edges) = 2


\* ------------------------------------------------------------------ C14
\* where promised edges wait: (key, position in the key's list)
PendingAt == UNION {{<<e, i>> : i \in 1..Len(_promised_edges[e])} : e \in Ents}
PendingId(x) == _promised_edges[x[1]][x[2]].id
PendingIds == {PendingId(x) : x \in PendingAt}
IdsOf(q) == [i \in 1..Len(q) |-> q[i].id]
IsPrefix(p, q) == Len(p) <= Len(q) /\ \A i \in 1..Len(p) : p[i] = q[i]

\* C14: a closure made by one pass through _add_edge waits in at most one
\* place of the promised edges and is called at most once: node(ent) takes
\* out ent's whole list and calls exactly the closures of that list, and a
\* closure that was called waits nowhere afterwards.
C14_StoredOnceRunOnce ==
    [][/\ \A x, y \in PendingAt' : x # y => PendingId(x)' # PendingId(y)'
       /\ \A i, j \in 1..Len(executed') : i # j => executed'[i] # executed'[j]
       /\ PendingIds' \cap Range(executed') = {}
       /\ \A ent \in Ents :
            (constructed /\ NodeCall(ent)) =>
                /\ _promised_edges'[ent] = <<>>
                /\ IsPrefix(executed \o IdsOf(_promised_edges[ent]), executed')]_vars

\* C14 witness: the last call was node(ent), it took ent's promised edge out
\* and called it, and nothing waits under ent.
C14_Witness ==
    /\ Len(effects) >= 4
    /\ effects[3].kind = "pop"
    /\ effects[4].kind = "emitEdge"
    /\ effects[4].id \in Range(executed)
    /\ effects[4].id \notin PendingIds
    /\ _promised_edges[effects[3].ent] = <<>>


\* ------------------------------------------------------------------ C15
\* the anchors _add_edge can resolve for a source entity
Anchors(e) == {port(e)} \cup {port_(e, p) : p \in {q \in Ports \ {NoPort} : HasPort(e, q)}}

RECURSIVE KnownBefore(_)
\* how many of the declarations es come before the first unknown field
KnownBefore(es) ==
    IF es = <<>> \/ UnknownField(Head(es)[1], Head(es)[3]) THEN 0
    ELSE 1 + KnownBefore(Tail(es))

\* C15: calling the promised edges in node raises nothing.  A relationship
\* with an unknown source field raises in the call that resolves its anchor
\* (edge, or node going through ent's own declarations) before a closure is
\* made for it, so every promised edge that waits has a resolved anchor; when
\* node(ent) raises the unknown-field error, ent's promised edges have all
\* been called and the error comes from one of ent's own declarations.
C15_FlushNeverRaises ==
    [][/\ \A x \in PendingAt' :
            LET c == _promised_edges'[x[1]][x[2]] IN c.src \in Anchors(c.by)
       /\ \A ent \in Ents :
            (constructed /\ NodeCall(ent)) =>
                /\ IsPrefix(executed \o IdsOf(_promised_edges[ent]), executed')
                /\ result' \in {OK, "AttributeError"}
                /\ result' = "AttributeError" =>
                        /\ DeclaredUnknownField(ent)
                        /\ closures' <= closures + KnownBefore(_edges[ent])
       /\ \A s \in Ents, p \in Ports :
            (constructed /\ UnknownField(s, p) /\ EdgeCall(s, Other(s), p)) =>
                /\ closures' = closures
                /\ _promised_edges' = _promised_edges]_vars

\* C15 witness: node(ent) called a promised edge and then raised the
\* unknown-field error on one of ent's own declarations.
C15_Witness ==
    /\ result = "AttributeError"
    /\ Len(effects) >= 4
    /\ effects[3].kind = "pop"
    /\ effects[4].kind = "emitEdge"
    /\ DeclaredUnknownField(effects[3].ent)


\* ------------------------------------------------------------------ C16
\* the node line node(e) emits: e's name and the label its first read returned
NodeOf(e) == NodeLine(port(e), firstLabel[e])
EmittedBefore(l, i) == \E j \in 1..(i - 1) : body[j] = l

\* C16: in the sequence the renderer received, every edge comes after the
\* node of its source entity and after the node of its destination entity.
C16_NodesBeforeEdge ==
    \A i \in 1..Len(body) :
        IsEdge(body[i]) =>
            \E s \in Ents :
                /\ body[i].a \in Anchors(s)
                /\ body[i].b = port(Other(s))
                /\ firstLabel[s] # "" /\ firstLabel[Other(s)] # ""
                /\ EmittedBefore(NodeOf(s), i)
                /\ EmittedBefore(NodeOf(Other(s)), i)

\* C16 witness: two nodes were emitted and then the edge between them.
C16_Witness ==
    /\ Len(body) >= 3
    /\ IsNode(body[1]) /\ IsNode(body[2]) /\ body[1] # body[2]
    /\ IsEdge(body[3])


\* ------------------------------------------------------------------ C17
\* C17: after every node or edge call no registered entity has promised
\* edges waiting under it: every non-empty list of the promised edges belongs
\* to an entity that is not registered.
C17_NothingWaitsUnderRegistered ==
    \A e \in Ents : _promised_edges[e] # <<>> => e \notin entities

\* C17 witness: one entity is registered with nothing waiting under it while
\* a promised edge waits under the other, unregistered one.
C17_Witness ==
    \E e \in entities :
        /\ _promised_edges[e] = <<>>
        /\ Other(e) \notin entities
        /\ _promised_edges[Other(e)] # <<>>


\* ------------------------------------------------------------------ C18
\* C18: driven through ERGraph(nodes=...), node, edge and edge_to only,
\* _add_edge is never entered with an unregistered source entity: an entity's
\* own declarations have the entity itself as source, every closure was made
\* with its source registered, and every promised edge that waits is filed
\* under the destination entity of its edge while its source is registered.
C18_SourceAlwaysRegistered ==
    /\ \A e \in made : \A i \in 1..Len(_edges[e]) : _edges[e][i][1] = e
    /\ \A i \in 1..Len(effects) :
            effects[i].kind \in {"promise", "emitEdge"} => effects[i].by \in effects[i].ents
    /\ \A i \in 1..Len(effects) :
            effects[i].kind = "promise" =>
                effects[i].ent # effects[i].by /\ effects[i].ent \in effects[i].of
    /\ \A x \in PendingAt :
            LET c == _promised_edges[x[1]][x[2]]
            IN  /\ c.by # x[1]
                /\ c.of = {c.by, x[1]}
                /\ c.by \in entities

\* C18 witness: the last call ended by promising an edge under its
\* unregistered destination, with the source registered.
C18_Witness ==
    /\ result = OK
    /\ effects # <<>>
    /\ LET fx == effects[Len(effects)]
       IN  /\ fx.kind = "promise"
           /\ fx.by \in entities
           /\ fx.ent \notin entities
           /\ \E x \in PendingAt : x[1] = fx.ent /\ PendingId(x) = fx.id


\* ------------------------------------------------------------------ C19
RECURSIVE EdgeLinesOf(_)
\* the edge lines calling the promised edges q emits
EdgeLinesOf(q) ==
    IF q = <<>> THEN <<>> ELSE <<EdgeLine(Head(q).src, Head(q).dst)>> \o EdgeLinesOf(Tail(q))

\* C19: _add_edge entered with source and destination both unregistered
\* appends the closure under the source entity only and emits nothing;
\* node(destination) leaves what waits under the source where it is and
\* calls none of it; node(source) calls everything that waits under the
\* source, whether the destination is registered or not.
C19_QueuedUnderSourceOnly ==
    [][/\ \A s \in Ents, p \in Ports :
            (/\ constructed
             /\ s \notin entities /\ Other(s) \notin entities
             /\ ~UnknownField(s, p)
             /\ Resolved(s, Other(s), p) \notin _linked_edges
             /\ AddEdgeCall(s, Other(s), p)) =>
                /\ Len(_promised_edges'[s]) = Len(_promised_edges[s]) + 1
                /\ IsPrefix(_promised_edges[s], _promised_edges'[s])
                /\ LET c == _promised_edges'[s][Len(_promised_edges'[s])]
                   IN  <<c.src, c.dst>> = Resolved(s, Other(s), p) /\ c.by = s
                /\ _promised_edges'[Other(s)] = _promised_edges[Other(s)]
                /\ body' = body /\ executed' = executed
       /\ \A d \in Ents :
            (constructed /\ NodeCall(d)) =>
                /\ IsPrefix(_promised_edges[Other(d)], _promised_edges'[Other(d)])
                /\ Range(IdsOf(_promised_edges[Other(d)])) \cap Range(executed') = {}
       /\ \A s \in Ents :
            (constructed /\ NodeCall(s)) =>
                /\ IsPrefix(executed \o IdsOf(_promised_edges[s]), executed')
                /\ IsPrefix(body \o <<NodeOf(s)'>> \o EdgeLinesOf(_promised_edges[s]), body')]_vars

\* C19 witness: node(source) called an edge that waited under the source
\* itself while the destination of that edge is not registered.
C19_Witness ==
    /\ Len(effects) >= 4
    /\ effects[3].kind = "pop"
    /\ effects[4].kind = "emitEdge"
    /\ effects[4].by = effects[3].ent
    /\ ~(effects[4].of \subseteq entities)

=============================================================================
